---- MODULE Spec2Model ----
(***************************************************************************)
(* The background task / queue coordination core of EX-Installer:          *)
(*   ThreadedArduinoCLI.run   (src/ex_installer/arduino_cli.py)            *)
(*   ThreadedGitClient.run    (src/ex_installer/git_client.py)             *)
(*   WindowLayout.monitor_queue (src/ex_installer/common_widgets.py)       *)
(*   WindowLayout.process_start / process_stop / process_error             *)
(*   SelectDevice.list_devices  (src/ex_installer/select_device.py)        *)
(*   SelectVersionConfig.setup_local_repo                                  *)
(*                        (src/ex_installer/select_version_config.py)      *)
(*                                                                         *)
(* Worker threads are modelled one visible operation per step (queue.put,  *)
(* lock acquire/release, the external call, reading the clock); the        *)
(* thread-local computation between two visible operations belongs to the  *)
(* step that follows it.  monitor_queue runs on the UI thread and is one   *)
(* step: the queue is only appended to by workers, so a drain interleaved  *)
(* with puts sees a prefix of the queue exactly as an atomic drain does.   *)
(* SpecPoll takes monitor_queue one statement per step instead.  Spec and  *)
(* SpecRun follow the threads and the queue only; the state of the view    *)
(* around them (process_phase, process_running, the widgets) is followed   *)
(* by SpecDevice (SelectDevice), SpecRepo (SelectVersionConfig) and        *)
(* SpecView (either of the two).  SpecOps follows the ArduinoCLI methods   *)
(* with their time limits, SpecQueue several threads with measured time,   *)
(* SpecGate the threads of Spec under fair scheduling, and SpecSelect a    *)
(* SelectDevice view with the devices its scans find and the user selects. *)
(*                                                                         *)
(* Texts (Python str) are sequences of string pieces, "" is <<>> and string*)
(* concatenation is \o.  A message's topic and data are tagged values      *)
(* [t, v]: t = "str" for a text, "json" for a decoded JSON document (named *)
(* by the raw text it was decoded from), "py" for a library return value.  *)
(***************************************************************************)
EXTENDS Integers, Sequences, FiniteSets, TLC

\* ------------------------------------------------------------------ bounds
NumTasks == 2
TimeLimit == 1
NumScans == 3

\* The worker threads interleaved on one queue, the calls of
\* list_devices("list_devices") made on one SelectDevice view, and the thread
\* objects both draw from.
Workers == 1..NumTasks
Scans == 1..NumScans
Tasks == Workers \cup Scans

VARIABLES
    pc,                 \* position of each worker thread in run()
    kind,               \* "acli" (ThreadedArduinoCLI) or "git" (ThreadedGitClient)
    task_name,          \* ThreadedGitClient.task_name; the ArduinoCLI method that made an acli thread
    time_limit,         \* ThreadedArduinoCLI.time_limit
    elapsed,            \* datetime.now() - start_time in ThreadedArduinoCLI.run
    ran,                \* history: the time each thread's external call has been running
    process,            \* self.process: a Popen record, set = FALSE before it is assigned
    output,             \* self.output (raw stdout) / git task return value, Unset before
    error,              \* self.error (raw stderr), Unset before it is assigned
    caught,             \* the exception bound by "except Exception as error"
    raised,             \* type of the exception that escaped run(), "none" otherwise
    arduino_cli_lock,   \* ThreadedArduinoCLI.arduino_cli_lock: holder, 0 when free
    api_lock,           \* ThreadedGitClient.api_lock: holder, 0 when free
    queue,              \* the view's Queue()
    after_pending,      \* number of monitor_queue callbacks scheduled by after()
    process_status,     \* WindowLayout.process_status
    process_topic,      \* WindowLayout.process_topic
    process_data,       \* WindowLayout.process_data
    events,             \* history: messages for which event_generate was called
    dequeued,           \* history: every message returned by queue.get()
    emitted,            \* history: every message passed to queue.put(), in order
    process_phase,      \* WindowLayout.process_phase, "None" for None
    process_running,    \* WindowLayout.process_running
    widget_states,      \* WindowLayout.widget_states: the recorded states of one input widget
    list_device_button, \* state of the view's input widget (SelectDevice.list_device_button)
    devices,            \* SelectDevice: acli.detected_devices, acli.selected_device, the
                        \* IntVar selected_device, the Next button and its recorded states
    received,           \* history: what the handler bound to the event was called with
    monitor             \* where the UI thread is inside monitor_queue, statement by statement

vars == <<pc, kind, task_name, time_limit, elapsed, ran, process, output, error,
          caught, raised, arduino_cli_lock, api_lock, queue, after_pending,
          process_status, process_topic, process_data, events, dequeued, emitted,
          process_phase, process_running, widget_states, list_device_button,
          devices, received, monitor>>

workerVars == <<pc, kind, task_name, time_limit, elapsed, ran, process, output, error,
                caught, raised, arduino_cli_lock, api_lock>>

pollerVars == <<after_pending, process_status, process_topic, process_data,
                events, dequeued>>

viewVars == <<process_phase, process_running, widget_states, list_device_button,
              devices, received, monitor>>

\* ------------------------------------------------------------ value helpers
Str(s) == IF s = "" THEN <<>> ELSE <<s>>
Text(seq) == [t |-> "str", v |-> seq]
Json(raw) == [t |-> "json", v |-> <<raw>>]
Py(val) == [t |-> "py", v |-> <<val>>]

\* QueueMessage = namedtuple("QueueMessage", ["status", "topic", "data"]);
\* src is a history field naming the task whose run() made the message.
QueueMessage(status, topic, data, src) ==
    [status |-> status, topic |-> topic, data |-> data, src |-> src]

IsTerminal(m) == m.status = "success" \/ m.status = "error"

\* get_exception(error): the template with the type name and the args
get_exception(err) ==
    <<"An exception of type ", err.type, " occurred. Arguments:\n", err.args>>

\* str(error)
str_exception(err) == Str(err.str)

\* ------------------------------------------------------ the external world
\* An attribute that run() has not assigned yet.
Unset == "<unset>"

\* Raw stdout texts an Arduino CLI process may write.
Stdouts == {"",
            "not json",
            "{success: true, compiler_out: OK}",
            "{success: true}",
            "{success: false, error: E, compiler_err: CE}",
            "{stdout: raw}",
            "{detected_ports: x}"}

\* Raw stderr texts an Arduino CLI process may write.
Stderrs == {"",
            "not json",
            "{error: bad board, output: {stderr: detail}}",
            "{error: E}",
            "{output: {stdout: so, stderr: se}}",
            "{output: {stdout: , stderr: }}"}

ReturnCodes == {0, 1}

\* What one run of the Arduino CLI process produces: stdout, stderr, exit code.
AllRuns == [out : Stdouts, err : Stderrs, rc : ReturnCodes]

\* The run drawn when several tasks are interleaved.
SomeRuns == {[out |-> "{success: true, compiler_out: OK}", err |-> "", rc |-> 0]}

\* Exceptions Popen() / communicate() may raise.
LaunchErrors == {[type |-> "FileNotFoundError", args |-> "(2, 'No such file or directory')",
                  str |-> "[Errno 2] No such file or directory"]}

\* Return values and exceptions of the wrapped pygit2 tasks.
GitTaskNames == {"clone_repo"}
GitOutputs == {"True"}

\* What GitClient.pull returns (git_client.py:193-225): True when the branch
\* is up to date or was fast-forwarded, False for any other merge analysis,
\* None when no remote has the requested name.
PullOutputs == {"True", "False", "None"}

\* The values the task wrapped by a ThreadedGitClient can return.
TaskOutputs(name) == IF name = "pull" THEN PullOutputs ELSE GitOutputs
GitErrors == {[type |-> "GitError", args |-> "('failed',)", str |-> "failed"]}

NoException == [type |-> "", args |-> "", str |-> ""]
NoProcess == [set |-> FALSE, exited |-> FALSE, returncode |-> 0, terminate_called |-> FALSE]

\* Raw stdout texts of "board list": a list of ports, each with or without
\* its matching boards.
ScanOutputs == {"{detected_ports: []}",
                "{detected_ports: [{matching_boards: [Uno]}]}",
                "{detected_ports: [{}]}",
                "{detected_ports: [{}, {matching_boards: [Uno]}]}"}

\* The SelectDevice fields after __init__ has called set_state() (line 125):
\* no device detected or selected, the IntVar at -1, the Next button disabled.
\* selected is <<>> for None and <<i>> for the index i.
NoDevices == [detected |-> <<>>, selected |-> <<>>, int_var |-> 0 - 1,
              button |-> "disabled", states |-> <<>>]

\* json.loads(raw.decode()): ok = FALSE stands for json.JSONDecodeError
json_loads(raw) ==
    CASE raw = "{success: true, compiler_out: OK}" ->
            [ok |-> TRUE, doc |-> [success |-> TRUE, compiler_out |-> "OK"]]
      [] raw = "{success: true}" ->
            [ok |-> TRUE, doc |-> [success |-> TRUE]]
      [] raw = "{success: false, error: E, compiler_err: CE}" ->
            [ok |-> TRUE, doc |-> [success |-> FALSE, error |-> "E", compiler_err |-> "CE"]]
      [] raw = "{stdout: raw}" ->
            [ok |-> TRUE, doc |-> [stdout |-> "raw"]]
      [] raw = "{detected_ports: x}" ->
            [ok |-> TRUE, doc |-> [detected_ports |-> "x"]]
      [] raw = "{error: bad board, output: {stderr: detail}}" ->
            [ok |-> TRUE, doc |-> [error |-> "bad board", output |-> [stderr |-> "detail"]]]
      [] raw = "{error: E}" ->
            [ok |-> TRUE, doc |-> [error |-> "E"]]
      [] raw = "{output: {stdout: so, stderr: se}}" ->
            [ok |-> TRUE, doc |-> [output |-> [stdout |-> "so", stderr |-> "se"]]]
      [] raw = "{output: {stdout: , stderr: }}" ->
            [ok |-> TRUE, doc |-> [output |-> [stdout |-> "", stderr |-> ""]]]
      [] raw = "{detected_ports: []}" ->
            [ok |-> TRUE, doc |-> [detected_ports |-> <<>>]]
      [] raw = "{detected_ports: [{matching_boards: [Uno]}]}" ->
            [ok |-> TRUE, doc |-> [detected_ports |-> <<[matching_boards |-> <<"Uno">>]>>]]
      [] raw = "{detected_ports: [{}]}" ->
            [ok |-> TRUE, doc |-> [detected_ports |-> <<[port |-> "p"]>>]]
      [] raw = "{detected_ports: [{}, {matching_boards: [Uno]}]}" ->
            [ok |-> TRUE, doc |-> [detected_ports |-> <<[port |-> "p"],
                                                        [matching_boards |-> <<"Uno">>]>>]]
      [] OTHER -> [ok |-> FALSE, doc |-> [none |-> ""]]

\* ------------------------------------------- classification (run, 126-163)
Raise(type) == [raise |-> type, topic |-> Text(<<>>), data |-> Text(<<>>)]
Classified(topic, data) == [raise |-> "none", topic |-> topic, data |-> data]

\* Mutant of ClassifyError: output.stderr replaces the text built so far
\* instead of being appended to it.
ClassifyError_detail_only(raw) ==
    LET dec == json_loads(raw) IN
    IF ~dec.ok THEN Raise("JSONDecodeError")
    ELSE
      LET err == dec.doc
          hasError == "error" \in DOMAIN err
          hasOutput == "output" \in DOMAIN err
          topic == IF hasError THEN Str(err.error) ELSE <<"Error in compile or upload">>
          data1 == IF hasError THEN Str(err.error) ELSE <<>>
          data2 == IF hasOutput /\ "stdout" \in DOMAIN err.output /\ err.output.stdout # ""
                   THEN <<err.output.stdout, "\n">>
                   ELSE data1
          data3 == IF hasOutput /\ "stderr" \in DOMAIN err.output /\ err.output.stderr # ""
                   THEN Str(err.output.stderr)
                   ELSE data2
      IN Classified(Text(topic), IF data3 = <<>> THEN Json(raw) ELSE Text(data3))

\* lines 129-144: self.error has content
ClassifyError(raw) ==
    LET dec == json_loads(raw) IN
    IF ~dec.ok THEN Raise("JSONDecodeError")
    ELSE
      LET err == dec.doc
          hasError == "error" \in DOMAIN err
          hasOutput == "output" \in DOMAIN err
          topic == IF hasError THEN Str(err.error) ELSE <<"Error in compile or upload">>
          data1 == IF hasError THEN Str(err.error) ELSE <<>>
          data2 == IF hasOutput /\ "stdout" \in DOMAIN err.output /\ err.output.stdout # ""
                   THEN <<err.output.stdout, "\n">>
                   ELSE data1
          data3 == IF hasOutput /\ "stderr" \in DOMAIN err.output /\ err.output.stderr # ""
                   THEN data2 \o Str(err.output.stderr)
                   ELSE data2
      IN Classified(Text(topic), IF data3 = <<>> THEN Json(raw) ELSE Text(data3))

\* Mutant of ClassifyOutput: the success branch reports the whole document
\* instead of its compiler_out field.
ClassifyOutput_whole(raw) ==
    LET dec == json_loads(raw) IN
    IF ~dec.ok THEN Raise("JSONDecodeError")
    ELSE
      LET details == dec.doc IN
      IF "success" \in DOMAIN details
      THEN IF details.success = TRUE
           THEN Classified(Text(<<"Success">>), Json(raw))
           ELSE IF "error" \in DOMAIN details /\ "compiler_err" \in DOMAIN details
                THEN Classified(Text(Str(details.error)), Text(Str(details.compiler_err)))
                ELSE Raise("KeyError")
      ELSE IF "stdout" \in DOMAIN details
           THEN Classified(Text(<<"Success">>), Text(Str(details.stdout)))
           ELSE Classified(Text(<<"Success">>), Json(raw))

\* Mutant of ClassifyOutput: without a success field the whole document is
\* reported, also when it has a stdout field, and with success false the
\* topic and data are exchanged.
ClassifyOutput_swapped(raw) ==
    LET dec == json_loads(raw) IN
    IF ~dec.ok THEN Raise("JSONDecodeError")
    ELSE
      LET details == dec.doc IN
      IF "success" \in DOMAIN details
      THEN IF details.success = TRUE
           THEN IF "compiler_out" \in DOMAIN details
                THEN Classified(Text(<<"Success">>), Text(Str(details.compiler_out)))
                ELSE Raise("KeyError")
           ELSE IF "error" \in DOMAIN details /\ "compiler_err" \in DOMAIN details
                THEN Classified(Text(Str(details.compiler_err)), Text(Str(details.error)))
                ELSE Raise("KeyError")
      ELSE Classified(Text(<<"Success">>), Json(raw))

\* lines 146-160: no stderr content, self.output has content
ClassifyOutput(raw) ==
    LET dec == json_loads(raw) IN
    IF ~dec.ok THEN Raise("JSONDecodeError")
    ELSE
      LET details == dec.doc IN
      IF "success" \in DOMAIN details
      THEN IF details.success = TRUE
           THEN IF "compiler_out" \in DOMAIN details
                THEN Classified(Text(<<"Success">>), Text(Str(details.compiler_out)))
                ELSE Raise("KeyError")
           ELSE IF "error" \in DOMAIN details /\ "compiler_err" \in DOMAIN details
                THEN Classified(Text(Str(details.error)), Text(Str(details.compiler_err)))
                ELSE Raise("KeyError")
      ELSE IF "stdout" \in DOMAIN details
           THEN Classified(Text(<<"Success">>), Text(Str(details.stdout)))
           ELSE Classified(Text(<<"Success">>), Json(raw))

\* Mutant of Classify: a run without stdout and stderr is classified with an
\* empty topic and empty data.
Classify_silent(out, err) ==
    IF err = Unset THEN Raise("AttributeError")
    ELSE IF err # "" THEN ClassifyError(err)
    ELSE IF out # "" THEN ClassifyOutput(out)
    ELSE Classified(Text(<<>>), Text(<<>>))

\* Mutant of Classify: stdout is looked at before stderr.
Classify_stdout_first(out, err) ==
    IF err = Unset THEN Raise("AttributeError")
    ELSE IF out # "" THEN ClassifyOutput(out)
    ELSE IF err # "" THEN ClassifyError(err)
    ELSE Classified(Text(<<"No output">>), Text(<<"No output">>))

\* lines 127-163; reading self.error before it was ever assigned is an AttributeError
Classify(out, err) ==
    IF err = Unset THEN Raise("AttributeError")
    ELSE IF err # "" THEN ClassifyError(err)
    ELSE IF out # "" THEN ClassifyOutput(out)
    ELSE Classified(Text(<<"No output">>), Text(<<"No output">>))

\* Mutant of Status: the test of the exit code is inverted.
Status_inverted(returncode) == IF returncode = 0 THEN "error" ELSE "success"

\* lines 164-169
Status(returncode) == IF returncode = 0 THEN "success" ELSE "error"

\* line 117: (datetime.now() - start_time) > self.time_limit
TimedOut(t) == elapsed[t] > time_limit[t]

TimeoutTopic == Text(<<"The Arduino CLI command did not complete within the timeout period">>)
TimeoutData(limit) ==
    Text(<<"The running Arduino CLI command took longer than ", ToString(limit)>>)

\* ------------------------------------------------------------------- state
Init ==
    /\ pc = [t \in Tasks |-> "idle"]
    /\ kind = [t \in Tasks |-> "none"]
    /\ task_name = [t \in Tasks |-> ""]
    /\ time_limit = [t \in Tasks |-> 0]
    /\ elapsed = [t \in Tasks |-> 0]
    /\ ran = [t \in Tasks |-> 0]
    /\ process = [t \in Tasks |-> NoProcess]
    /\ output = [t \in Tasks |-> Unset]
    /\ error = [t \in Tasks |-> Unset]
    /\ caught = [t \in Tasks |-> NoException]
    /\ raised = [t \in Tasks |-> "none"]
    /\ arduino_cli_lock = 0
    /\ api_lock = 0
    /\ queue = <<>>
    /\ after_pending = 0
    /\ process_status = "None"
    /\ process_topic = Text(<<>>)
    /\ process_data = Text(<<>>)
    /\ events = <<>>
    /\ dequeued = <<>>
    /\ emitted = <<>>
    /\ process_phase = "None"
    /\ process_running = FALSE
    /\ widget_states = <<>>
    /\ list_device_button = "normal"
    /\ devices = NoDevices
    /\ received = <<>>
    /\ monitor = [at |-> "idle", start |-> 0]

\* --------------------------------------------- poller (common_widgets.py)
\* Mutant of Put: the item is placed at the head of the queue.
Put_at_head(item) ==
    /\ queue' = <<item>> \o queue
    /\ emitted' = Append(emitted, item)

\* queue.put(item)
Put(item) ==
    /\ queue' = Append(queue, item)
    /\ emitted' = Append(emitted, item)

\* Mutant of Dispatches: the event is generated for a message of any status.
Dispatches_any(item) == item.status \in {"info", "success", "error"}

\* Whether monitor_queue generates its event for this message.
Dispatches(item) == item.status = "success" \/ item.status = "error"

\* Index of the message on which monitor_queue returns, 0 if it drains q.
StopIndex(q) ==
    IF \E i \in 1..Len(q) : Dispatches(q[i])
    THEN CHOOSE i \in 1..Len(q) :
            /\ Dispatches(q[i])
            /\ \A j \in 1..(i - 1) : ~Dispatches(q[j])
    ELSE 0

\* Mutant of monitor_queue: after() is called on every path, also after the
\* event was generated.
monitor_queue_always_reschedules(pending) ==
    LET i == StopIndex(queue) IN
    /\ UNCHANGED emitted
    /\ IF i = 0
       THEN /\ dequeued' = dequeued \o queue
            /\ queue' = <<>>
            /\ after_pending' = pending + 1
            /\ UNCHANGED <<process_status, process_topic, process_data, events>>
       ELSE /\ dequeued' = dequeued \o SubSeq(queue, 1, i)
            /\ queue' = SubSeq(queue, i + 1, Len(queue))
            /\ process_status' = queue[i].status
            /\ process_topic' = queue[i].topic
            /\ process_data' = queue[i].data
            /\ events' = Append(events, queue[i])
            /\ after_pending' = pending + 1

\* WindowLayout.monitor_queue(queue, event): one call, the whole loop.
\* pending is the number of scheduled callbacks left besides this call.
monitor_queue(pending) ==
    LET i == StopIndex(queue) IN
    /\ UNCHANGED emitted
    /\ IF i = 0
       THEN /\ dequeued' = dequeued \o queue
            /\ queue' = <<>>
            /\ after_pending' = pending + 1
            /\ UNCHANGED <<process_status, process_topic, process_data, events>>
       ELSE /\ dequeued' = dequeued \o SubSeq(queue, 1, i)
            /\ queue' = SubSeq(queue, i + 1, Len(queue))
            /\ process_status' = queue[i].status
            /\ process_topic' = queue[i].topic
            /\ process_data' = queue[i].data
            /\ events' = Append(events, queue[i])
            /\ after_pending' = pending

\* A callback scheduled by self.after(100, self.monitor_queue, queue, event) runs.
AfterCallback ==
    /\ after_pending > 0
    /\ monitor_queue(after_pending - 1)
    /\ UNCHANGED <<workerVars, viewVars>>

\* ---------------------------------------------------------- starting tasks
\* A phase handler begins a task: process_start(...) calls monitor_queue, then
\* the ThreadedArduinoCLI is constructed (default time_limit) and started.
StartArduinoCLI(t) ==
    /\ pc[t] = "idle"
    /\ \A u \in 1..(t - 1) : pc[u] # "idle"
    /\ monitor_queue(after_pending)
    /\ kind' = [kind EXCEPT ![t] = "acli"]
    /\ time_limit' = [time_limit EXCEPT ![t] = TimeLimit]
    /\ pc' = [pc EXCEPT ![t] = "info"]
    /\ UNCHANGED <<task_name, elapsed, ran, process, output, error, caught, raised,
                   arduino_cli_lock, api_lock>>
    /\ UNCHANGED viewVars

\* As above for a ThreadedGitClient wrapping the task called name.
StartGitClient(t) ==
    /\ pc[t] = "idle"
    /\ \A u \in 1..(t - 1) : pc[u] # "idle"
    /\ monitor_queue(after_pending)
    /\ \E name \in GitTaskNames : task_name' = [task_name EXCEPT ![t] = name]
    /\ kind' = [kind EXCEPT ![t] = "git"]
    /\ pc' = [pc EXCEPT ![t] = "info"]
    /\ UNCHANGED <<time_limit, elapsed, ran, process, output, error, caught, raised,
                   arduino_cli_lock, api_lock>>
    /\ UNCHANGED viewVars

\* ------------------------------------- ArduinoCLI methods and time limits
\* Seconds: the default of ThreadedArduinoCLI.__init__ and the two overrides.
DefaultTimeLimit == 300
ListBoardsTimeLimit == 120
InstallPackageTimeLimit == 600

\* The ArduinoCLI methods that construct and start a ThreadedArduinoCLI.
Operations == {"get_version", "get_platforms", "get_libraries", "initialise_config",
               "update_index", "install_package", "upgrade_platforms",
               "install_library", "list_boards", "upload_sketch", "compile_sketch"}

\* Mutant of time_limit_of: compile_sketch and upload_sketch get a longer limit.
time_limit_of_long_compile(op) ==
    CASE op = "install_package" -> InstallPackageTimeLimit
      [] op = "list_boards" -> ListBoardsTimeLimit
      [] op \in {"compile_sketch", "upload_sketch"} -> InstallPackageTimeLimit
      [] OTHER -> DefaultTimeLimit

\* The time_limit argument each method passes, the default when it passes none.
time_limit_of(op) ==
    CASE op = "install_package" -> InstallPackageTimeLimit
      [] op = "list_boards" -> ListBoardsTimeLimit
      [] OTHER -> DefaultTimeLimit

\* A view calls process_start and then ArduinoCLI method op, which constructs
\* the thread with the method's time limit and starts it.
StartOperation(t, op) ==
    /\ pc[t] = "idle"
    /\ \A u \in 1..(t - 1) : pc[u] # "idle"
    /\ monitor_queue(after_pending)
    /\ kind' = [kind EXCEPT ![t] = "acli"]
    /\ task_name' = [task_name EXCEPT ![t] = op]
    /\ time_limit' = [time_limit EXCEPT ![t] = time_limit_of(op)]
    /\ pc' = [pc EXCEPT ![t] = "info"]
    /\ UNCHANGED <<elapsed, ran, process, output, error, caught, raised,
                   arduino_cli_lock, api_lock>>
    /\ UNCHANGED viewVars

\* --------------------------------- ThreadedArduinoCLI.run (arduino_cli.py)
\* lines 97-101: start_time = datetime.now(); queue.put(info)
AcliInfo(t) ==
    /\ kind[t] = "acli" /\ pc[t] = "info"
    /\ elapsed' = [elapsed EXCEPT ![t] = 0]
    /\ Put(QueueMessage("info", Text(<<"Run Arduino CLI">>),
                                           Text(<<"Arduino CLI parameters: ">>), t))
    /\ pc' = [pc EXCEPT ![t] = "acquire"]
    /\ UNCHANGED <<kind, task_name, time_limit, process, output, error, caught, raised,
                   arduino_cli_lock, api_lock>>
    /\ UNCHANGED <<pollerVars, viewVars, ran>>

\* Mutant of CanAcquire: the lock is taken without waiting for its holder.
CanAcquire_unguarded(lock, t) == lock \in 0..NumTasks

\* Whether task t may take the lock whose holder is lock.
CanAcquire(lock, t) == lock = 0

\* line 102: with self.arduino_cli_lock (enter)
AcliAcquire(t) ==
    /\ kind[t] = "acli" /\ pc[t] = "acquire"
    /\ CanAcquire(arduino_cli_lock, t)
    /\ arduino_cli_lock' = t
    /\ pc' = [pc EXCEPT ![t] = "call"]
    /\ UNCHANGED <<kind, task_name, time_limit, elapsed, process, output, error,
                   caught, raised, api_lock, queue, emitted>>
    /\ UNCHANGED <<pollerVars, viewVars, ran>>

\* lines 108-110, the process runs and exits: Popen() returns, communicate()
\* returns the captured stdout and stderr
AcliCallReturns(t, runs) ==
    /\ kind[t] = "acli" /\ pc[t] = "call"
    /\ \E r \in runs :
          /\ process' = [process EXCEPT ![t] = [set |-> TRUE, exited |-> TRUE,
                                                returncode |-> r.rc,
                                                terminate_called |-> FALSE]]
          /\ output' = [output EXCEPT ![t] = r.out]
          /\ error' = [error EXCEPT ![t] = r.err]
    /\ pc' = [pc EXCEPT ![t] = "check"]
    /\ UNCHANGED <<kind, task_name, time_limit, elapsed, caught, raised,
                   arduino_cli_lock, api_lock, queue, emitted>>
    /\ UNCHANGED <<pollerVars, viewVars, ran>>

\* lines 108-112, Popen() raises (self.process is never assigned, launched is
\* FALSE) or communicate() raises (self.process is assigned, output and error
\* are not)
AcliCallRaises(t, launches) ==
    /\ kind[t] = "acli" /\ pc[t] = "call"
    /\ \E e \in LaunchErrors : caught' = [caught EXCEPT ![t] = e]
    /\ \E launched \in launches :
          process' = [process EXCEPT ![t] = [set |-> launched, exited |-> FALSE,
                                             returncode |-> 0,
                                             terminate_called |-> FALSE]]
    /\ pc' = [pc EXCEPT ![t] = "except"]
    /\ UNCHANGED <<kind, task_name, time_limit, elapsed, output, error, raised,
                   arduino_cli_lock, api_lock, queue, emitted>>
    /\ UNCHANGED <<pollerVars, viewVars, ran>>

\* Mutant of AcliExcept: the message is built with get_exception(error).
AcliExcept_get_exception(t) ==
    /\ kind[t] = "acli" /\ pc[t] = "except"
    /\ Put(QueueMessage("error", Text(<<"Arduino CLI">>),
                                           Text(get_exception(caught[t])), t))
    /\ pc' = [pc EXCEPT ![t] = "check"]
    /\ UNCHANGED <<kind, task_name, time_limit, elapsed, process, output, error,
                   caught, raised, arduino_cli_lock, api_lock>>
    /\ UNCHANGED <<pollerVars, viewVars, ran>>

\* lines 112-116: except Exception as error: queue.put(error message)
AcliExcept(t) ==
    /\ kind[t] = "acli" /\ pc[t] = "except"
    /\ Put(QueueMessage("error", Text(str_exception(caught[t])),
                                           Text(str_exception(caught[t])), t))
    /\ pc' = [pc EXCEPT ![t] = "check"]
    /\ UNCHANGED <<kind, task_name, time_limit, elapsed, process, output, error,
                   caught, raised, arduino_cli_lock, api_lock>>
    /\ UNCHANGED <<pollerVars, viewVars, ran>>

\* Mutant of AcliEscape: the exception leaves run() with the lock still held.
AcliEscape_keeps_lock(t, type) ==
    /\ raised' = [raised EXCEPT ![t] = type]
    /\ UNCHANGED arduino_cli_lock
    /\ pc' = [pc EXCEPT ![t] = "raised"]

\* An exception leaves run(): the with block releases the lock on the way out.
AcliEscape(t, type) ==
    /\ raised' = [raised EXCEPT ![t] = type]
    /\ arduino_cli_lock' = 0
    /\ pc' = [pc EXCEPT ![t] = "raised"]

\* lines 117-173: the time limit check, then either the timeout message or
\* the classification and the terminal message.  late is the value of the
\* comparison of line 117.
AcliCheck(t, late) ==
    /\ kind[t] = "acli" /\ pc[t] = "check"
    /\ IF late
       THEN /\ Put(QueueMessage("error", TimeoutTopic,
                                                   TimeoutData(time_limit[t]), t))
            /\ pc' = [pc EXCEPT ![t] = "terminate"]
            /\ UNCHANGED <<raised, arduino_cli_lock>>
       ELSE LET c == Classify(output[t], error[t]) IN
            IF c.raise # "none"
            THEN /\ AcliEscape(t, c.raise)
                 /\ UNCHANGED <<queue, emitted>>
            ELSE /\ Put(QueueMessage(Status(process[t].returncode),
                                                        c.topic, c.data, t))
                 /\ pc' = [pc EXCEPT ![t] = "release"]
                 /\ UNCHANGED <<raised, arduino_cli_lock>>
    /\ UNCHANGED <<kind, task_name, time_limit, elapsed, process, output, error,
                   caught, api_lock>>
    /\ UNCHANGED <<pollerVars, viewVars, ran>>

\* Mutant of AcliTerminate: terminate() is also called on a thread that is
\* still inside communicate() once its time limit has passed.
AcliTerminate_midflight(t) ==
    /\ kind[t] = "acli"
    /\ pc[t] = "terminate" \/ (pc[t] = "call" /\ TimedOut(t))
    /\ IF process[t].set \/ pc[t] = "call"
       THEN /\ process' = [process EXCEPT ![t].terminate_called = TRUE]
            /\ pc' = [pc EXCEPT ![t] = "release"]
            /\ UNCHANGED <<raised, arduino_cli_lock>>
       ELSE /\ AcliEscape(t, "AttributeError")
            /\ UNCHANGED process
    /\ UNCHANGED <<kind, task_name, time_limit, elapsed, output, error, caught,
                   api_lock, queue, emitted>>
    /\ UNCHANGED <<pollerVars, viewVars, ran>>

\* line 124: self.process.terminate(); AttributeError if Popen() never returned
AcliTerminate(t) ==
    /\ kind[t] = "acli" /\ pc[t] = "terminate"
    /\ IF process[t].set
       THEN /\ process' = [process EXCEPT ![t].terminate_called = TRUE]
            /\ pc' = [pc EXCEPT ![t] = "release"]
            /\ UNCHANGED <<raised, arduino_cli_lock>>
       ELSE /\ AcliEscape(t, "AttributeError")
            /\ UNCHANGED process
    /\ UNCHANGED <<kind, task_name, time_limit, elapsed, output, error, caught,
                   api_lock, queue, emitted>>
    /\ UNCHANGED <<pollerVars, viewVars, ran>>

\* line 102: with self.arduino_cli_lock (normal exit)
AcliRelease(t) ==
    /\ kind[t] = "acli" /\ pc[t] = "release"
    /\ arduino_cli_lock' = 0
    /\ pc' = [pc EXCEPT ![t] = "done"]
    /\ UNCHANGED <<kind, task_name, time_limit, elapsed, process, output, error,
                   caught, raised, api_lock, queue, emitted>>
    /\ UNCHANGED <<pollerVars, viewVars, ran>>

\* ------------------------------------- ThreadedGitClient.run (git_client.py)
\* Mutant of GitInfo: run() goes on to the lock without putting the info message.
GitInfo_skipped(t) ==
    /\ kind[t] = "git" /\ pc[t] = "info"
    /\ pc' = [pc EXCEPT ![t] = "acquire"]
    /\ UNCHANGED <<kind, task_name, time_limit, elapsed, process, output, error,
                   caught, raised, arduino_cli_lock, api_lock, queue, emitted>>
    /\ UNCHANGED <<pollerVars, viewVars, ran>>

\* lines 75-78: queue.put(info)
GitInfo(t) ==
    /\ kind[t] = "git" /\ pc[t] = "info"
    /\ Put(QueueMessage("info", Text(Str(task_name[t])),
                                           Text(<<"Run pygit2 task ">>), t))
    /\ pc' = [pc EXCEPT ![t] = "acquire"]
    /\ UNCHANGED <<kind, task_name, time_limit, elapsed, process, output, error,
                   caught, raised, arduino_cli_lock, api_lock>>
    /\ UNCHANGED <<pollerVars, viewVars, ran>>

\* line 79: with self.api_lock (enter)
GitAcquire(t) ==
    /\ kind[t] = "git" /\ pc[t] = "acquire"
    /\ CanAcquire(api_lock, t)
    /\ api_lock' = t
    /\ pc' = [pc EXCEPT ![t] = "call"]
    /\ UNCHANGED <<kind, task_name, time_limit, elapsed, process, output, error,
                   caught, raised, arduino_cli_lock, queue, emitted>>
    /\ UNCHANGED <<pollerVars, viewVars, ran>>

\* line 81: output = self.task(*self.args) returns
GitCallReturns(t) ==
    /\ kind[t] = "git" /\ pc[t] = "call"
    /\ \E out \in TaskOutputs(task_name[t]) : output' = [output EXCEPT ![t] = out]
    /\ pc' = [pc EXCEPT ![t] = "put_success"]
    /\ UNCHANGED <<kind, task_name, time_limit, elapsed, process, error, caught,
                   raised, arduino_cli_lock, api_lock, queue, emitted>>
    /\ UNCHANGED <<pollerVars, viewVars, ran>>

\* lines 81, 86: self.task(*self.args) raises, except Exception as error
GitCallRaises(t) ==
    /\ kind[t] = "git" /\ pc[t] = "call"
    /\ \E e \in GitErrors : caught' = [caught EXCEPT ![t] = e]
    /\ pc' = [pc EXCEPT ![t] = "put_error"]
    /\ UNCHANGED <<kind, task_name, time_limit, elapsed, process, output, error,
                   raised, arduino_cli_lock, api_lock, queue, emitted>>
    /\ UNCHANGED <<pollerVars, viewVars, ran>>

\* Mutant of GitResult: the except branch reports success like the try branch.
GitResult_always_success(t) ==
    QueueMessage("success", Text(Str(task_name[t])), Py(output[t]), t)

\* The message ThreadedGitClient.run puts after the task call (lines 82-90).
GitResult(t) ==
    IF pc[t] = "put_success"
    THEN QueueMessage("success", Text(Str(task_name[t])), Py(output[t]), t)
    ELSE QueueMessage("error", Text(Str(task_name[t])), Text(get_exception(caught[t])), t)

\* Mutant of GitPut: the message is put after the with block has been left.
GitPut_outside_with(t) ==
    /\ kind[t] = "git" /\ pc[t] \in {"put_success", "put_error"}
    /\ Put(GitResult(t))
    /\ api_lock' = 0
    /\ pc' = [pc EXCEPT ![t] = "release"]
    /\ UNCHANGED <<kind, task_name, time_limit, elapsed, process, output, error,
                   caught, raised, arduino_cli_lock>>
    /\ UNCHANGED <<pollerVars, viewVars, ran>>

\* lines 82-84 and 87-90: queue.put(success) or queue.put(error)
GitPut(t) ==
    /\ kind[t] = "git" /\ pc[t] \in {"put_success", "put_error"}
    /\ Put(GitResult(t))
    /\ pc' = [pc EXCEPT ![t] = "release"]
    /\ UNCHANGED <<kind, task_name, time_limit, elapsed, process, output, error,
                   caught, raised, arduino_cli_lock, api_lock>>
    /\ UNCHANGED <<pollerVars, viewVars, ran>>

\* line 79: with self.api_lock (exit)
GitRelease(t) ==
    /\ kind[t] = "git" /\ pc[t] = "release"
    /\ api_lock' = 0
    /\ pc' = [pc EXCEPT ![t] = "done"]
    /\ UNCHANGED <<kind, task_name, time_limit, elapsed, process, output, error,
                   caught, raised, arduino_cli_lock, queue, emitted>>
    /\ UNCHANGED <<pollerVars, viewVars, ran>>

\* ------------------------------------------- the SelectDevice view (UI thread)
\* The view's process state as one value, for the handlers that call each
\* other within one event.
View == [phase |-> process_phase, running |-> process_running,
         states |-> widget_states, button |-> list_device_button]

SetView(v) ==
    /\ process_phase' = v.phase
    /\ process_running' = v.running
    /\ widget_states' = v.states
    /\ list_device_button' = v.button

\* disable_input_states(self): record the widget's state, then disable it
disable_input_states(v) ==
    [v EXCEPT !.states = Append(v.states, v.button), !.button = "disabled"]

\* restore_input_states(): configure the widget with every recorded state in
\* the order recorded, so the last record decides; widget_states is kept
restore_input_states(v) ==
    [v EXCEPT !.button = IF v.states = <<>> THEN v.button
                         ELSE v.states[Len(v.states)]]

\* process_start(next_phase, ...) up to its call of monitor_queue
process_start(v, next_phase) ==
    LET w == IF ~v.running
             THEN [disable_input_states(v) EXCEPT !.running = TRUE]
             ELSE v
    IN [w EXCEPT !.phase = next_phase]

\* process_stop()
process_stop(v) ==
    LET w == IF v.running
             THEN [restore_input_states(v) EXCEPT !.running = FALSE]
             ELSE v
    IN [w EXCEPT !.phase = "None"]

\* Mutant of process_error: process_phase is left as it was.
process_error_keeps_phase(v) ==
    IF v.running
    THEN [restore_input_states(v) EXCEPT !.running = FALSE]
    ELSE v

\* process_error(message)
process_error(v) ==
    LET w == IF v.running
             THEN [restore_input_states(v) EXCEPT !.running = FALSE]
             ELSE v
    IN [w EXCEPT !.phase = "None"]

\* list_devices(event) called through the <<List_Devices>> binding: event is
\* not the string "list_devices", so only the refresh_list branch can run.
list_devices_event(v, status) ==
    IF v.phase = "refresh_list"
    THEN IF status = "success" THEN process_stop(v)
         ELSE IF status = "error" THEN process_error(v)
         ELSE v
    ELSE v

\* What the Arduino CLI produces for "board list".
DeviceRuns == {[out |-> "{detected_ports: x}", err |-> "", rc |-> 0],
               [out |-> "", err |-> "{error: E}", rc |-> 1]}

\* The thread most recently started.
LastStarted ==
    IF \E t \in Tasks : pc[t] # "idle"
    THEN CHOOSE t \in Tasks : pc[t] # "idle" /\ \A u \in Tasks : pc[u] # "idle" => u <= t
    ELSE 0

\* The ports in process_data as the refresh_list branch reads them (lines
\* 165-167, 178): the list under "detected_ports", no port for other data.
detected_ports(data) ==
    IF data.t = "json" /\ data.v[1] \in ScanOutputs
    THEN json_loads(data.v[1]).doc.detected_ports
    ELSE <<>>

\* lines 183-195: the names of a port's matching boards, "Unknown" without
matching_board_list(board) ==
    IF "matching_boards" \in DOMAIN board THEN board.matching_boards
    ELSE <<"Unknown">>

\* Python's seq[k] as an index of the TLA+ sequence; 0 for IndexError.
PyIndex(seq, k) ==
    LET i == IF k >= 0 THEN k + 1 ELSE Len(seq) + k + 1
    IN IF i \in 1..Len(seq) THEN i ELSE 0

\* select_device() (lines 265-280), for an IntVar that indexes detected_devices
select_device(d) ==
    LET device == d.int_var
        name == d.detected[PyIndex(d.detected, device)][1]
    IN IF name # "Unknown" /\ name # "Select the correct device"
       THEN [d EXCEPT !.selected = <<device>>, !.button = "normal"]
       ELSE [d EXCEPT !.selected = <<>>, !.button = "disabled"]

\* set_state() (lines 126-140): "not self.acli.selected_device" is true for
\* None and for the index 0
set_state(d) ==
    IF d.selected = <<>> \/ d.selected = <<0>>
    THEN [d EXCEPT !.button = "disabled"]
    ELSE [d EXCEPT !.button = "normal"]

\* The SelectDevice fields after the handler bound to <<List_Devices>> was
\* called with the message msg on the view v (lines 162-249).  raised: the
\* handler was left by the IndexError of select_device (line 269), before
\* set_state and process_stop.
refresh_list(d, v, msg) ==
    IF v.phase # "refresh_list" THEN [d |-> d, raised |-> FALSE]
    ELSE IF msg.status = "success"
    THEN LET ports == detected_ports(msg.data)
             found == [i \in 1..Len(ports) |-> matching_board_list(ports[i])]
             d1 == [d EXCEPT !.detected = d.detected \o found]
             single == \E i \in 1..Len(d1.detected) :
                          /\ Len(d1.detected[i]) = 1
                          /\ d1.detected[i][1] # "Unknown"
         IN IF Len(ports) > 0 /\ single
            THEN IF PyIndex(d1.detected, d1.int_var) = 0
                 THEN [d |-> d1, raised |-> TRUE]
                 ELSE [d |-> IF v.running
                             THEN restore_input_states(set_state(select_device(d1)))
                             ELSE set_state(select_device(d1)),
                       raised |-> FALSE]
            ELSE [d |-> IF v.running THEN restore_input_states(set_state(d1))
                        ELSE set_state(d1),
                  raised |-> FALSE]
    ELSE IF msg.status = "error"
    THEN [d |-> IF v.running THEN restore_input_states(d) ELSE d, raised |-> FALSE]
    ELSE [d |-> d, raised |-> FALSE]

\* monitor_queue on the view: event_generate runs the bound handler before it
\* returns.  v and d are the view and the SelectDevice fields when
\* monitor_queue is called, t the thread the view's phase stands for.
monitor_queue_view(pending, v, d, t) ==
    LET i == StopIndex(queue) IN
    /\ monitor_queue(pending)
    /\ UNCHANGED monitor
    /\ IF i = 0
       THEN /\ SetView(v)
            /\ devices' = d
            /\ UNCHANGED received
       ELSE LET r == refresh_list(d, v, queue[i]) IN
            /\ SetView(IF r.raised THEN v ELSE list_devices_event(v, queue[i].status))
            /\ devices' = r.d
            /\ received' = Append(received,
                              [msg |-> queue[i], phase |-> v.phase, task |-> t])

\* list_devices("list_devices"), lines 156-157 and the part of process_start
\* that records and disables the Next button
scan_started(d, v) ==
    LET d0 == [d EXCEPT !.detected = <<>>, !.selected = <<>>]
    IN IF ~v.running THEN disable_input_states(d0) ELSE d0

\* list_devices("list_devices"): the Scan / Refresh button, and the call that
\* ends SelectDevice.__init__.  process_start, then acli.list_boards starts a
\* ThreadedArduinoCLI with its time limit.
ListDevices(t) ==
    /\ list_device_button = "normal"
    /\ pc[t] = "idle"
    /\ \A u \in 1..(t - 1) : pc[u] # "idle"
    /\ monitor_queue_view(after_pending, process_start(View, "refresh_list"),
                          scan_started(devices, View), t)
    /\ kind' = [kind EXCEPT ![t] = "acli"]
    /\ time_limit' = [time_limit EXCEPT ![t] = TimeLimit]
    /\ pc' = [pc EXCEPT ![t] = "info"]
    /\ UNCHANGED <<task_name, elapsed, ran, process, output, error, caught, raised,
                   arduino_cli_lock, api_lock>>

\* A scheduled monitor_queue callback runs on the view.
ViewAfterCallback ==
    /\ after_pending > 0
    /\ monitor_queue_view(after_pending - 1, View, devices, LastStarted)
    /\ UNCHANGED workerVars

\* What the Arduino CLI produces for "board list" with ports attached.
ScanRuns == [out : ScanOutputs, err : {""}, rc : {0}]

\* The user clicks the radio button of the device with index i: the IntVar
\* takes its value and select_device() runs.
SelectRadio(i) ==
    /\ ~process_running
    /\ i \in 0..(Len(devices.detected) - 1)
    /\ devices' = select_device([devices EXCEPT !.int_var = i])
    /\ UNCHANGED <<workerVars, pollerVars, queue, emitted, process_phase,
                   process_running, widget_states, list_device_button, received,
                   monitor>>

\* update_board(name, index) (lines 251-262): the user picks a board in the
\* combo box shown for an unknown device.
UpdateBoard(i) ==
    /\ ~process_running
    /\ i \in 0..(Len(devices.detected) - 1)
    /\ devices.detected[i + 1][1] = "Unknown"
    /\ devices' = [devices EXCEPT !.detected[i + 1] = <<"Mega">>, !.int_var = i]
    /\ UNCHANGED <<workerVars, pollerVars, queue, emitted, process_phase,
                   process_running, widget_states, list_device_button, received,
                   monitor>>

\* ------------------------------ the SelectVersionConfig view (UI thread)
\* What the UI thread reads and writes while it handles one event: the queue
\* and the poller's fields, the view, and starts, the task names of the
\* ThreadedGitClient threads the handlers have started so far, in order.
Ui == [queue |-> queue, dequeued |-> dequeued, events |-> events,
       after_pending |-> after_pending, status |-> process_status,
       topic |-> process_topic, data |-> process_data, view |-> View,
       received |-> received, starts |-> <<>>]

\* What setup_local_repo("setup_local_repo") finds in the product directory.
DiskStates == {"no_dir", "empty_dir", "clean_repo", "local_changes",
               "broken_repo", "other_files"}

\* How lines 213-217 end: the checkout succeeds, repo.checkout raises, or
\* get_repo / get_branch_ref raise before the try statement is entered.
Checkouts == {"ok", "checkout_raises", "ref_raises"}

RECURSIVE repo_monitor_queue(_, _, _)
RECURSIVE setup_local_repo_event(_, _)

\* process_start(next_phase, ...) with its call of monitor_queue (line 188),
\* followed by the start of the ThreadedGitClient called name.
repo_start(u, next_phase, name, co) ==
    LET expect == LastStarted + Len(u.starts) + 1
        w == repo_monitor_queue([u EXCEPT !.view = process_start(u.view, next_phase)],
                                co, expect)
    IN [w EXCEPT !.starts = Append(w.starts, name)]

\* lines 213-224: get_repo, get_branch_ref, checkout, then pull_latest
checkout_and_pull(u, co) ==
    CASE co = "ref_raises" -> u
      [] co = "checkout_raises" -> [u EXCEPT !.view = process_error(u.view)]
      [] OTHER -> repo_start(u, "pull_latest", "pull", co)

\* Mutant of clone_failed: a failed clone is treated like a finished one.
clone_failed_goes_on(u, co) == checkout_and_pull(u, co)

\* lines 225-227: the clone reported an error
clone_failed(u, co) == [u EXCEPT !.view = process_error(u.view)]

\* Mutant of setup_local_repo_event: a failed pull is started again.
setup_local_repo_event_retries(u, co) ==
    IF u.view.phase = "clone_repo"
    THEN IF u.status = "success" THEN checkout_and_pull(u, co)
         ELSE IF u.status = "error" THEN clone_failed(u, co)
         ELSE u
    ELSE IF u.view.phase = "pull_latest"
    THEN IF u.status = "success" THEN [u EXCEPT !.view = process_stop(u.view)]
         ELSE IF u.status = "error" THEN repo_start(u, "pull_latest", "pull", co)
         ELSE u
    ELSE u

\* setup_local_repo(event) called through the <<Setup_Local_Repo>> binding:
\* event is no string, so the branches of lines 211 and 228 decide.
setup_local_repo_event(u, co) ==
    IF u.view.phase = "clone_repo"
    THEN IF u.status = "success" THEN checkout_and_pull(u, co)
         ELSE IF u.status = "error" THEN clone_failed(u, co)
         ELSE u
    ELSE IF u.view.phase = "pull_latest"
    THEN IF u.status = "success" THEN [u EXCEPT !.view = process_stop(u.view)]
         ELSE IF u.status = "error" THEN [u EXCEPT !.view = process_error(u.view)]
         ELSE u
    ELSE u

\* monitor_queue on this view: the whole loop, and the handler that
\* event_generate runs before monitor_queue returns.  expect is the thread
\* the view's phase stands for.
repo_monitor_queue(u, co, expect) ==
    LET i == StopIndex(u.queue) IN
    IF i = 0
    THEN [u EXCEPT !.dequeued = u.dequeued \o u.queue,
                   !.queue = <<>>,
                   !.after_pending = u.after_pending + 1]
    ELSE setup_local_repo_event(
             [u EXCEPT !.dequeued = u.dequeued \o SubSeq(u.queue, 1, i),
                       !.queue = SubSeq(u.queue, i + 1, Len(u.queue)),
                       !.status = u.queue[i].status,
                       !.topic = u.queue[i].topic,
                       !.data = u.queue[i].data,
                       !.events = Append(u.events, u.queue[i]),
                       !.received = Append(u.received,
                                       [msg |-> u.queue[i], phase |-> u.view.phase,
                                        task |-> expect])],
             co)

\* setup_local_repo("setup_local_repo"), lines 187-207, with the calls it
\* makes of itself for "clone_repo" and "get_latest".
setup_local_repo(u, disk, co) ==
    CASE disk \in {"no_dir", "empty_dir"} -> repo_start(u, "clone_repo", "clone_repo", co)
      [] disk = "clean_repo" -> checkout_and_pull(u, co)
      [] OTHER -> [u EXCEPT !.view = process_error(u.view)]

\* The UI thread has handled its event: its fields are stored and the
\* threads it started run.
UiDone(u) ==
    LET first == LastStarted + 1
        last == LastStarted + Len(u.starts)
    IN
    /\ last <= NumScans
    /\ queue' = u.queue
    /\ dequeued' = u.dequeued
    /\ events' = u.events
    /\ after_pending' = u.after_pending
    /\ process_status' = u.status
    /\ process_topic' = u.topic
    /\ process_data' = u.data
    /\ SetView(u.view)
    /\ received' = u.received
    /\ pc' = [t \in Tasks |-> IF t \in first..last THEN "info" ELSE pc[t]]
    /\ kind' = [t \in Tasks |-> IF t \in first..last THEN "git" ELSE kind[t]]
    /\ task_name' = [t \in Tasks |->
                        IF t \in first..last THEN u.starts[t - LastStarted]
                        ELSE task_name[t]]
    /\ UNCHANGED <<time_limit, elapsed, ran, process, output, error, caught, raised,
                   arduino_cli_lock, api_lock, emitted, monitor, devices>>

\* set_product(product) when the view is shown, or "Override" in
\* resolve_local_changes: both call setup_local_repo("setup_local_repo").
SetupLocalRepo ==
    /\ list_device_button = "normal"
    /\ \E disk \in DiskStates, co \in Checkouts :
          UiDone(setup_local_repo(Ui, disk, co))

\* A scheduled monitor_queue callback runs on the view.
RepoAfterCallback ==
    /\ after_pending > 0
    /\ \E co \in Checkouts :
          UiDone(repo_monitor_queue([Ui EXCEPT !.after_pending = after_pending - 1],
                                    co, LastStarted))

\* ------------------------------- monitor_queue, one statement per step
\* The UI thread inside monitor_queue: monitor.at is "test" before the loop
\* condition, "get" before queue.get(), "blocked" inside a queue.get() that
\* waits, "idle" outside monitor_queue; monitor.start is the thread that
\* process_start's caller starts once monitor_queue has returned, 0 for a call
\* made by after().

\* Mutant of queue_empty: the loop condition takes the queue for non-empty.
queue_empty_ignored(q) == FALSE

\* queue.empty()
queue_empty(q) == q = <<>>

\* monitor_queue returns; after a call from process_start the handler goes on
\* and starts its ThreadedArduinoCLI.
MonitorReturns ==
    /\ monitor' = [at |-> "idle", start |-> 0]
    /\ IF monitor.start = 0
       THEN UNCHANGED workerVars
       ELSE /\ kind' = [kind EXCEPT ![monitor.start] = "acli"]
            /\ time_limit' = [time_limit EXCEPT ![monitor.start] = TimeLimit]
            /\ pc' = [pc EXCEPT ![monitor.start] = "info"]
            /\ UNCHANGED <<task_name, elapsed, ran, process, output, error, caught,
                           raised, arduino_cli_lock, api_lock>>

\* process_start(...) calls monitor_queue (line 188) for the thread t that the
\* handler is about to start.
MonitorCalled(t) ==
    /\ monitor.at = "idle"
    /\ pc[t] = "idle"
    /\ \A u \in 1..(t - 1) : pc[u] # "idle"
    /\ monitor' = [at |-> "test", start |-> t]
    /\ UNCHANGED <<workerVars, pollerVars, queue, emitted, process_phase,
                   process_running, widget_states, list_device_button, devices, received>>

\* Tk runs a callback scheduled by after(100, self.monitor_queue, ...).
MonitorCallback ==
    /\ monitor.at = "idle"
    /\ after_pending > 0
    /\ after_pending' = after_pending - 1
    /\ monitor' = [at |-> "test", start |-> 0]
    /\ UNCHANGED <<workerVars, queue, emitted, process_status, process_topic,
                   process_data, events, dequeued, process_phase,
                   process_running, widget_states, list_device_button, devices, received>>

\* line 167: while not queue.empty(); line 175 when the loop ends
MonitorTest ==
    /\ monitor.at = "test"
    /\ IF queue_empty(queue)
       THEN /\ after_pending' = after_pending + 1
            /\ MonitorReturns
       ELSE /\ monitor' = [monitor EXCEPT !.at = "get"]
            /\ UNCHANGED <<workerVars, after_pending>>
    /\ UNCHANGED <<queue, emitted, process_status, process_topic, process_data,
                   events, dequeued, process_phase, process_running,
                   widget_states, list_device_button, devices, received>>

\* lines 168-174: item = queue.get(), which waits while the queue is empty,
\* and the body of the loop
MonitorGet ==
    /\ monitor.at \in {"get", "blocked"}
    /\ IF queue = <<>>
       THEN /\ monitor' = [monitor EXCEPT !.at = "blocked"]
            /\ UNCHANGED <<workerVars, queue, dequeued, process_status,
                           process_topic, process_data, events>>
       ELSE LET item == Head(queue) IN
            /\ queue' = Tail(queue)
            /\ dequeued' = Append(dequeued, item)
            /\ IF Dispatches(item)
               THEN /\ process_status' = item.status
                    /\ process_topic' = item.topic
                    /\ process_data' = item.data
                    /\ events' = Append(events, item)
                    /\ MonitorReturns
               ELSE /\ monitor' = [monitor EXCEPT !.at = "test"]
                    /\ UNCHANGED <<workerVars, process_status, process_topic,
                                   process_data, events>>
    /\ UNCHANGED <<after_pending, emitted, process_phase, process_running,
                   widget_states, list_device_button, devices, received>>

\* -------------------------------------------------------------------- time
\* The threads whose run() is between reading start_time and the time check.
Timed == {t \in Tasks : kind[t] = "acli" /\ pc[t] \in {"acquire", "call", "except", "check"}}

\* Wall-clock time passes while some thread is inside its external call (the
\* threads waiting for a lock wait for that call).  Past time_limit + 1 the
\* comparison of line 117 no longer changes, so elapsed stops there.
Tick ==
    /\ \E t \in Tasks : pc[t] = "call"
    /\ \E t \in Timed : elapsed[t] <= time_limit[t]
    /\ elapsed' = [t \in Tasks |->
                      IF t \in Timed /\ elapsed[t] <= time_limit[t]
                      THEN elapsed[t] + 1
                      ELSE elapsed[t]]
    /\ ran' = [t \in Tasks |->
                  IF pc[t] = "call" /\ elapsed[t] <= time_limit[t]
                  THEN ran[t] + 1
                  ELSE ran[t]]
    /\ UNCHANGED <<pc, kind, task_name, time_limit, process, output, error,
                   caught, raised, arduino_cli_lock, api_lock, queue, emitted>>
    /\ UNCHANGED <<pollerVars, viewVars>>

Next ==
    \/ \E t \in Workers : StartArduinoCLI(t)
    \/ \E t \in Workers : StartGitClient(t)
    \/ \E t \in Workers : AcliInfo(t)
    \/ \E t \in Workers : AcliAcquire(t)
    \/ \E t \in Workers : AcliCallReturns(t, SomeRuns)
    \/ \E t \in Workers : AcliCallRaises(t, {FALSE})
    \/ \E t \in Workers : AcliExcept(t)
    \/ \E t \in Workers, late \in BOOLEAN : AcliCheck(t, late)
    \/ \E t \in Workers : AcliTerminate(t)
    \/ \E t \in Workers : AcliRelease(t)
    \/ \E t \in Workers : GitInfo(t)
    \/ \E t \in Workers : GitAcquire(t)
    \/ \E t \in Workers : GitCallReturns(t)
    \/ \E t \in Workers : GitCallRaises(t)
    \/ \E t \in Workers : GitPut(t)
    \/ \E t \in Workers : GitRelease(t)
    \/ AfterCallback

Spec == Init /\ [][Next]_vars

\* One ThreadedArduinoCLI task alone, over every run of the process, with the
\* elapsed time of line 117 measured rather than drawn.
NextRun ==
    \/ StartArduinoCLI(1)
    \/ AcliInfo(1)
    \/ AcliAcquire(1)
    \/ AcliCallReturns(1, AllRuns)
    \/ AcliCallRaises(1, BOOLEAN)
    \/ AcliExcept(1)
    \/ AcliCheck(1, TimedOut(1))
    \/ AcliTerminate(1)
    \/ AcliRelease(1)
    \/ AfterCallback
    \/ Tick

SpecRun == Init /\ [][NextRun]_vars

\* One SelectDevice view: its scans, the threads they start, its poller.  As
\* in Spec the outcome of the comparison of line 117 is drawn.
NextDevice ==
    \/ \E t \in Scans : ListDevices(t)
    \/ \E t \in Scans : AcliInfo(t)
    \/ \E t \in Scans : AcliAcquire(t)
    \/ \E t \in Scans : AcliCallReturns(t, DeviceRuns)
    \/ \E t \in Scans : AcliCallRaises(t, {FALSE})
    \/ \E t \in Scans : AcliExcept(t)
    \/ \E t \in Scans, late \in BOOLEAN : AcliCheck(t, late)
    \/ \E t \in Scans : AcliTerminate(t)
    \/ \E t \in Scans : AcliRelease(t)
    \/ ViewAfterCallback

SpecDevice == Init /\ [][NextDevice]_vars

\* The worker threads of Spec against monitor_queue taken statement by
\* statement: every put can fall between any two statements of the loop.
NextPoll ==
    \/ \E t \in Workers : MonitorCalled(t)
    \/ MonitorCallback
    \/ MonitorTest
    \/ MonitorGet
    \/ \E t \in Workers : AcliInfo(t)
    \/ \E t \in Workers : AcliAcquire(t)
    \/ \E t \in Workers : AcliCallReturns(t, SomeRuns)
    \/ \E t \in Workers : AcliCallRaises(t, {FALSE})
    \/ \E t \in Workers : AcliExcept(t)
    \/ \E t \in Workers, late \in BOOLEAN : AcliCheck(t, late)
    \/ \E t \in Workers : AcliTerminate(t)
    \/ \E t \in Workers : AcliRelease(t)

SpecPoll == Init /\ [][NextPoll]_vars

\* One thread made by any of the ArduinoCLI methods, with its time limit in
\* seconds and the clock of Tick counting seconds.
NextOps ==
    \/ \E op \in Operations : StartOperation(1, op)
    \/ AcliInfo(1)
    \/ AcliAcquire(1)
    \/ AcliCallReturns(1, SomeRuns)
    \/ AcliCheck(1, TimedOut(1))
    \/ AcliTerminate(1)
    \/ AcliRelease(1)
    \/ AfterCallback
    \/ Tick

SpecOps == Init /\ [][NextOps]_vars

\* The SelectVersionConfig view with the ThreadedGitClient threads it starts.
NextRepo ==
    \/ SetupLocalRepo
    \/ RepoAfterCallback
    \/ \E t \in Tasks :
          \/ GitInfo(t)
          \/ GitAcquire(t)
          \/ GitCallReturns(t)
          \/ GitCallRaises(t)
          \/ GitPut(t)
          \/ GitRelease(t)

SpecRepo == Init /\ [][NextRepo]_vars

\* One view and its threads: a SelectDevice view with the list_boards threads
\* it starts, or a SelectVersionConfig view with its clone and pull threads.
\* Each view has its own queue, so a behaviour follows one of them.
NextView ==
    \/ (\A t \in Tasks : kind[t] # "git") /\ NextDevice
    \/ (\A t \in Tasks : kind[t] # "acli") /\ NextRepo

SpecView == Init /\ [][NextView]_vars

\* Several ThreadedArduinoCLI threads of one queue with the time measured:
\* a thread started while another holds arduino_cli_lock waits at line 102
\* with its start_time already read (line 97).
NextQueue ==
    \/ \E t \in Workers : StartArduinoCLI(t)
    \/ \E t \in Workers : AcliInfo(t)
    \/ \E t \in Workers : AcliAcquire(t)
    \/ \E t \in Workers : AcliCallReturns(t, SomeRuns)
    \/ \E t \in Workers : AcliCheck(t, TimedOut(t))
    \/ \E t \in Workers : AcliTerminate(t)
    \/ \E t \in Workers : AcliRelease(t)
    \/ AfterCallback
    \/ Tick

SpecQueue == Init /\ [][NextQueue]_vars

\* One SelectDevice view whose scans find ports: the scans, their threads,
\* the poller, and the user choosing among the devices shown.
NextSelect ==
    \/ \E t \in Scans : ListDevices(t)
    \/ \E t \in Scans : AcliInfo(t)
    \/ \E t \in Scans : AcliAcquire(t)
    \/ \E t \in Scans : AcliCallReturns(t, ScanRuns)
    \/ \E t \in Scans : AcliCheck(t, FALSE)
    \/ \E t \in Scans : AcliRelease(t)
    \/ ViewAfterCallback
    \/ \E i \in 0..(Len(devices.detected) - 1) : SelectRadio(i)
    \/ \E i \in 0..(Len(devices.detected) - 1) : UpdateBoard(i)

SpecSelect == Init /\ [][NextSelect]_vars

\* SpecRun with the scheduling of the program: a started thread keeps running
\* its next statement, a scheduled after() callback runs, the clock advances.
\* communicate() (line 110) is called without a timeout and returns only when
\* the process exits, which a process is not obliged to do: there is no
\* fairness condition on AcliCallReturns and AcliCallRaises.
SpecRunFair ==
    /\ Init /\ [][NextRun]_vars
    /\ WF_vars(AcliInfo(1))
    /\ WF_vars(AcliAcquire(1))
    /\ WF_vars(AcliExcept(1))
    /\ WF_vars(AcliCheck(1, TimedOut(1)))
    /\ WF_vars(AcliTerminate(1))
    /\ WF_vars(AcliRelease(1))
    /\ WF_vars(AfterCallback)
    /\ WF_vars(Tick)

\* The worker threads of Spec with the scheduling of the program and external
\* calls that end: a started thread keeps running its next statement, and the
\* process or the pygit2 task of a thread inside its call returns or raises.
\* The poller takes no lock and is left out.
NextGate ==
    \/ \E t \in Workers : StartArduinoCLI(t)
    \/ \E t \in Workers : StartGitClient(t)
    \/ \E t \in Workers : AcliInfo(t)
    \/ \E t \in Workers : AcliAcquire(t)
    \/ \E t \in Workers : AcliCallReturns(t, SomeRuns)
    \/ \E t \in Workers : AcliCallRaises(t, {FALSE})
    \/ \E t \in Workers : AcliExcept(t)
    \/ \E t \in Workers, late \in BOOLEAN : AcliCheck(t, late)
    \/ \E t \in Workers : AcliTerminate(t)
    \/ \E t \in Workers : AcliRelease(t)
    \/ \E t \in Workers : GitInfo(t)
    \/ \E t \in Workers : GitAcquire(t)
    \/ \E t \in Workers : GitCallReturns(t)
    \/ \E t \in Workers : GitCallRaises(t)
    \/ \E t \in Workers : GitPut(t)
    \/ \E t \in Workers : GitRelease(t)

SpecGate ==
    /\ Init /\ [][NextGate]_vars
    /\ \A t \in Workers :
          /\ WF_vars(AcliInfo(t))
          /\ WF_vars(AcliAcquire(t))
          /\ WF_vars(AcliCallReturns(t, SomeRuns) \/ AcliCallRaises(t, {FALSE}))
          /\ WF_vars(AcliExcept(t))
          /\ WF_vars(\E late \in BOOLEAN : AcliCheck(t, late))
          /\ WF_vars(AcliTerminate(t))
          /\ WF_vars(AcliRelease(t))
          /\ WF_vars(GitInfo(t))
          /\ WF_vars(GitAcquire(t))
          /\ WF_vars(GitCallReturns(t) \/ GitCallRaises(t))
          /\ WF_vars(GitPut(t))
          /\ WF_vars(GitRelease(t))

\* ================================================================= claims
Finished(t) == pc[t] \in {"done", "raised"}

\* Positions in emitted of the terminal messages put by task t.
TerminalsOf(t) == {i \in 1..Len(emitted) : emitted[i].src = t /\ IsTerminal(emitted[i])}
Count(t) == Cardinality(TerminalsOf(t))

\* Task t is inside the with block of its lock.
Holds(t) ==
    \/ kind[t] = "acli" /\ arduino_cli_lock = t
    \/ kind[t] = "git" /\ api_lock = t

\* The positions of run() between entering and leaving the with block.
InGate(t) == pc[t] \in {"call", "except", "check", "terminate", "put_success",
                        "put_error", "release"}

\* C1: every started ThreadedArduinoCLI task puts exactly one terminal message
\* on its queue on every path of run(): never two, and one once run() has ended.
C1_ExactlyOneTerminal ==
    \A t \in Tasks :
        kind[t] = "acli" =>
            /\ Count(t) <= 1
            /\ Finished(t) => Count(t) = 1

\* C2: every started ThreadedGitClient task puts exactly one terminal message:
\* ("success", task_name, return value) if the task returned, ("error",
\* task_name, text with the exception's type name and args) if it raised;
\* nothing terminal before the call has ended.
C2_GitExactlyOneTerminal ==
    \A t \in Tasks :
        kind[t] = "git" =>
            /\ Count(t) <= 1
            /\ pc[t] \in {"info", "acquire", "call", "put_success", "put_error"}
                  => Count(t) = 0
            /\ pc[t] \in {"release", "done"} =>
                  /\ Count(t) = 1
                  /\ \A i \in TerminalsOf(t) :
                        /\ emitted[i].topic = Text(<<task_name[t]>>)
                        /\ caught[t] = NoException =>
                              /\ emitted[i].status = "success"
                              /\ emitted[i].data = Py(output[t])
                        /\ caught[t] # NoException =>
                              /\ emitted[i].status = "error"
                              /\ emitted[i].data.t = "str"
                              /\ \E j, k \in 1..Len(emitted[i].data.v) :
                                    /\ emitted[i].data.v[j] = caught[t].type
                                    /\ emitted[i].data.v[k] = caught[t].args
            /\ raised[t] = "none"

C2_Witness ==
    \E t, u \in Tasks :
        /\ kind[t] = "git" /\ pc[t] = "done" /\ caught[t] # NoException
        /\ kind[u] = "git" /\ pc[u] = "done" /\ caught[u] = NoException
        /\ Count(t) = 1 /\ Count(u) = 1

\* C3: at most one ThreadedArduinoCLI task at a time is between acquiring and
\* releasing arduino_cli_lock, and at most one ThreadedGitClient task is between
\* acquiring and releasing api_lock.
C3_MutualExclusion ==
    /\ Cardinality({t \in Tasks : kind[t] = "acli" /\ InGate(t)}) <= 1
    /\ Cardinality({t \in Tasks : kind[t] = "git" /\ InGate(t)}) <= 1

C3_Witness ==
    \E t, u \in Tasks :
        /\ t # u /\ kind[t] = kind[u]
        /\ pc[t] = "call" /\ pc[u] = "acquire"

C5_StatusFollowsExitCode ==
    \A t \in Tasks :
        (/\ kind[t] = "acli"
         /\ process[t].exited
         /\ ~TimedOut(t)
         /\ pc[t] \in {"release", "done"})
        => /\ Count(t) = 1
           /\ \A i \in TerminalsOf(t) :
                 emitted[i].status =
                    IF process[t].returncode = 0 THEN "success" ELSE "error"

C5_Witness ==
    \E t \in Tasks :
        /\ kind[t] = "acli" /\ pc[t] = "done" /\ ~TimedOut(t)
        /\ error[t] = "{error: E}" /\ process[t].returncode = 0
        /\ \E i \in TerminalsOf(t) : emitted[i].status = "success"

\* In seq every terminal message comes after an info message of the same task.
InfoBefore(seq) ==
    \A i \in 1..Len(seq) :
        IsTerminal(seq[i]) =>
            \E j \in 1..(i - 1) : seq[j].src = seq[i].src /\ seq[j].status = "info"

\* C6: a task's info message is put strictly before its terminal message, and
\* the poller never dequeues a task's terminal message ahead of its info message.
C6_InfoBeforeTerminal ==
    /\ InfoBefore(emitted)
    /\ InfoBefore(dequeued)

C6_Witness ==
    \E i, j \in 1..Len(dequeued) :
        /\ i # j
        /\ IsTerminal(dequeued[i]) /\ IsTerminal(dequeued[j])
        /\ dequeued[i].src # dequeued[j].src

\* C7: when the time limit check fires, the task's only terminal message is the
\* timeout error naming the configured limit, and the process is terminated.
C7_TimeoutOnlyMessage ==
    \A t \in Tasks :
        (/\ kind[t] = "acli"
         /\ TimedOut(t)
         /\ pc[t] \in {"terminate", "release", "done", "raised"})
        => /\ \A i \in TerminalsOf(t) :
                 emitted[i] = QueueMessage("error", TimeoutTopic,
                                           TimeoutData(time_limit[t]), t)
           /\ Count(t) = 1
           /\ Finished(t) => process[t].terminate_called

\* C8: output that fails to parse, or lacks a field the classifier reads, is
\* reported by one "error" message whose text names the exception's type.
C8_ParseFailureReported ==
    \A t \in Tasks :
        (/\ kind[t] = "acli"
         /\ Finished(t)
         /\ ~TimedOut(t)
         /\ error[t] # Unset
         /\ Classify(output[t], error[t]).raise # "none")
        => /\ Count(t) = 1
           /\ \A i \in TerminalsOf(t) :
                 /\ emitted[i].status = "error"
                 /\ \E j \in 1..Len(emitted[i].data.v) :
                       emitted[i].data.v[j] = Classify(output[t], error[t]).raise

\* C9: after a failure to launch or communicate with the process has been
\* caught and reported, run() ends without an exception leaving the thread.
C9_NoExceptionEscapes ==
    \A t \in Tasks : caught[t] # NoException => raised[t] = "none"

Last(seq) == seq[Len(seq)]

\* C10: the poller generates its event only for a "success" or "error" message:
\* while only info messages have been dequeued there is no event and the
\* process_* fields are unwritten, and a call of monitor_queue that ends on an
\* info message changes none of them and leaves a callback scheduled.
C10_DispatchOnlyTerminal ==
    /\ [](/\ \A i \in 1..Len(events) : IsTerminal(events[i])
          /\ (\A i \in 1..Len(dequeued) : ~IsTerminal(dequeued[i])) =>
                /\ events = <<>>
                /\ process_status = "None"
                /\ process_topic = Text(<<>>)
                /\ process_data = Text(<<>>))
    /\ [][/\ (dequeued' # dequeued /\ ~IsTerminal(Last(dequeued'))) =>
                /\ UNCHANGED <<events, process_status, process_topic, process_data>>
                /\ after_pending' > 0
          /\ events' # events =>
                /\ dequeued' # dequeued
                /\ IsTerminal(Last(dequeued'))
                /\ Last(events') = Last(dequeued')
                /\ process_status' = Last(dequeued').status]_vars

C10_Witness ==
    /\ Len(events) = 1
    /\ Len(dequeued) >= 3
    /\ \A i \in 1..(Len(dequeued) - 1) : dequeued[i].status = "info"
    /\ after_pending > 0

\* The process of task t has exited and run() has passed its classification.
Classifying(t) ==
    /\ kind[t] = "acli"
    /\ process[t].exited
    /\ pc[t] \in {"release", "done"}

\* C11: a task whose process writes stdout decoding to an object with success
\* true and compiler_out X, writes no stderr and exits 0 within the time limit
\* puts exactly the terminal message ("success", "Success", X).
C11_SuccessPayload ==
    \A t \in Tasks :
        (/\ Classifying(t)
         /\ error[t] = ""
         /\ json_loads(output[t]).ok
         /\ "success" \in DOMAIN json_loads(output[t]).doc
         /\ json_loads(output[t]).doc.success = TRUE
         /\ "compiler_out" \in DOMAIN json_loads(output[t]).doc
         /\ process[t].returncode = 0
         /\ ~TimedOut(t))
        => /\ Count(t) = 1
           /\ \A i \in TerminalsOf(t) :
                 emitted[i] = QueueMessage("success", Text(<<"Success">>),
                                  Text(Str(json_loads(output[t]).doc.compiler_out)), t)

C11_Witness ==
    \E t \in Tasks :
        /\ Classifying(t) /\ pc[t] = "done" /\ ~TimedOut(t)
        /\ output[t] = "{success: true, compiler_out: OK}" /\ error[t] = ""
        /\ process[t].returncode = 0
        /\ \E i \in TerminalsOf(t) :
              emitted[i] = QueueMessage("success", Text(<<"Success">>), Text(<<"OK">>), t)

\* The stderr of task t decodes to an object with an error field, a non-empty
\* output.stderr and no output.stdout, and the exit code is not zero.
ErrorWithDetail(t) ==
    /\ Classifying(t)
    /\ json_loads(error[t]).ok
    /\ "error" \in DOMAIN json_loads(error[t]).doc
    /\ "output" \in DOMAIN json_loads(error[t]).doc
    /\ "stderr" \in DOMAIN json_loads(error[t]).doc.output
    /\ json_loads(error[t]).doc.output.stderr # ""
    /\ "stdout" \notin DOMAIN json_loads(error[t]).doc.output
    /\ process[t].returncode # 0

\* C12 as claimed: such a task puts the terminal message with status "error",
\* topic E and data equal to the detail text D alone, with or without a
\* trailing newline.
C12_DataIsDetail ==
    \A t \in Tasks :
        ErrorWithDetail(t) =>
            /\ Count(t) = 1
            /\ \A i \in TerminalsOf(t) :
                  LET err == json_loads(error[t]).doc IN
                  /\ emitted[i].status = "error"
                  /\ emitted[i].topic = Text(<<err.error>>)
                  /\ emitted[i].data \in {Text(<<err.output.stderr>>),
                                          Text(<<err.output.stderr, "\n">>)}

\* C12 as amended: when the time limit check does not fire, such a task puts
\* the terminal message with status "error", topic E and data E immediately
\* followed by D, with no separator and no trailing newline.
C12_DataIsErrorThenDetail ==
    \A t \in Tasks :
        (ErrorWithDetail(t) /\ ~TimedOut(t)) =>
            /\ Count(t) = 1
            /\ \A i \in TerminalsOf(t) :
                  LET err == json_loads(error[t]).doc IN
                  emitted[i] = QueueMessage("error", Text(<<err.error>>),
                                   Text(<<err.error, err.output.stderr>>), t)

C12_Witness ==
    \E t \in Tasks :
        /\ ErrorWithDetail(t) /\ ~TimedOut(t) /\ pc[t] = "done"
        /\ error[t] = "{error: bad board, output: {stderr: detail}}"
        /\ \E i \in TerminalsOf(t) :
              emitted[i] = QueueMessage("error", Text(<<"bad board">>),
                               Text(<<"bad board", "detail">>), t)

\* The process of task t wrote neither stdout nor stderr.
NoOutput(t) == Classifying(t) /\ output[t] = "" /\ error[t] = ""

\* C13 as claimed: a task whose process produces neither stdout nor stderr
\* puts a terminal message with topic "No output" and data "No output", and
\* with exit code 0 that message is ("success", "No output", "No output").
C13_NoOutputAlways ==
    \A t \in Tasks :
        NoOutput(t) =>
            /\ Count(t) = 1
            /\ \A i \in TerminalsOf(t) :
                  /\ emitted[i].topic = Text(<<"No output">>)
                  /\ emitted[i].data = Text(<<"No output">>)
                  /\ process[t].returncode = 0 => emitted[i].status = "success"

\* C13 as amended: the same when the time limit check does not fire; when it
\* fires the task puts the timeout error instead.
C13_NoOutputWithinLimit ==
    \A t \in Tasks :
        NoOutput(t) =>
            /\ Count(t) = 1
            /\ \A i \in TerminalsOf(t) :
                  IF TimedOut(t)
                  THEN emitted[i] = QueueMessage("error", TimeoutTopic,
                                        TimeoutData(time_limit[t]), t)
                  ELSE emitted[i] = QueueMessage(Status(process[t].returncode),
                                        Text(<<"No output">>), Text(<<"No output">>), t)

C13_Witness ==
    \E t \in Tasks :
        /\ NoOutput(t) /\ ~TimedOut(t) /\ pc[t] = "done"
        /\ process[t].returncode = 0
        /\ \E i \in TerminalsOf(t) :
              emitted[i] = QueueMessage("success", Text(<<"No output">>),
                               Text(<<"No output">>), t)

\* C14: a started ThreadedArduinoCLI task whose time limit has passed while
\* its process runs eventually ends with a terminal message on the queue, even
\* if the process never exits on its own.
C14_EndsAfterTimeLimit ==
    (kind[1] = "acli" /\ pc[1] = "call" /\ TimedOut(1))
        ~> (Finished(1) /\ Count(1) >= 1)

\* C15: every terminal message handed to the view's handler was put by the
\* thread started for the phase the view is in (never one left in the queue
\* by an earlier thread), and no terminal message of a thread is in the queue
\* once a terminal message of that thread has been dispatched.
C15_NoStaleTerminal ==
    /\ \A k \in 1..Len(received) : received[k].msg.src = received[k].task
    /\ \A i \in 1..Len(queue) :
          IsTerminal(queue[i]) =>
              ~ \E k \in 1..Len(received) : received[k].msg.src = queue[i].src

\* A step in which a handler starts a thread (process_start calls monitor_queue).
StartStep == \E t \in Tasks : pc[t] = "idle" /\ pc'[t] # "idle"

\* A step in which monitor_queue ran: called by process_start, or as a
\* callback that took something from the queue.
MonitorStep == StartStep \/ dequeued' # dequeued

\* Position of the first terminal message of q, 0 if there is none.
FirstTerminal(q) ==
    IF \E i \in 1..Len(q) : IsTerminal(q[i])
    THEN CHOOSE i \in 1..Len(q) : IsTerminal(q[i]) /\ \A j \in 1..(i - 1) : ~IsTerminal(q[j])
    ELSE 0

\* C16: when monitor_queue dequeues a terminal message it stores the message's
\* status, topic and data, generates the event once and ends the cycle: it
\* takes nothing after that message and schedules no callback.  When the queue
\* is empty or holds only info messages it takes them all, generates nothing
\* and schedules itself again.  Nothing else generates events or stores results.
C16_TerminalEndsCycle ==
    [][ LET i == FirstTerminal(queue)
            called == IF StartStep THEN 0 ELSE 1
        IN IF MonitorStep
           THEN IF i # 0
                THEN /\ events' = Append(events, queue[i])
                     /\ process_status' = queue[i].status
                     /\ process_topic' = queue[i].topic
                     /\ process_data' = queue[i].data
                     /\ dequeued' = dequeued \o SubSeq(queue, 1, i)
                     /\ queue' = SubSeq(queue, i + 1, Len(queue))
                     /\ after_pending' = after_pending - called
                ELSE /\ events' = events
                     /\ UNCHANGED <<process_status, process_topic, process_data>>
                     /\ dequeued' = dequeued \o queue
                     /\ queue' = <<>>
                     /\ after_pending' = after_pending - called + 1
                     /\ after_pending' >= 1
           ELSE UNCHANGED <<events, process_status, process_topic, process_data,
                            after_pending>>
      ]_vars

\* A cycle has taken an info message and gone on, and a cycle has just ended on
\* a terminal message with a message behind it still in the queue.
C16_Witness ==
    /\ events # <<>> /\ dequeued # <<>>
    /\ dequeued[Len(dequeued)] = events[Len(events)]
    /\ queue # <<>>
    /\ \E k \in 1..Len(dequeued) : dequeued[k].status = "info"
    /\ process_status = events[Len(events)].status

\* The external call of thread t (the process, the library call) has ended.
CallEnded(t) == pc[t] \notin {"idle", "info", "acquire", "call"}

\* What was put on the queue is what was taken from it followed by what is
\* still in it: messages are taken in the order they were put.
Fifo == emitted = dequeued \o queue

\* C17 as claimed: the poller takes messages in exactly the order they were
\* put, and every message it has taken is of a thread whose external call has
\* ended.
C17_ObservedAfterCall ==
    /\ Fifo
    /\ \A k \in 1..Len(dequeued) : CallEnded(dequeued[k].src)

\* C17 as amended: the order is kept, and every terminal message the poller
\* has taken is of a thread whose external call has ended; info messages are
\* put before the call and can be taken while it runs.
C17_TerminalAfterCall ==
    /\ Fifo
    /\ \A k \in 1..Len(dequeued) :
          IsTerminal(dequeued[k]) => CallEnded(dequeued[k].src)
    /\ \A k \in 1..Len(emitted) :
          IsTerminal(emitted[k]) => CallEnded(emitted[k].src)

C17_Witness ==
    \E j, k \in 1..Len(dequeued) :
        /\ j < k
        /\ IsTerminal(dequeued[j])
        /\ dequeued[k].status = "info" /\ pc[dequeued[k].src] = "call"
        /\ queue # <<>>

\* Thread t was started and no terminal message of it has been dispatched.
InFlight(t) ==
    /\ pc[t] # "idle"
    /\ ~ \E k \in 1..Len(events) : events[k].src = t

\* C18: on the SelectDevice view at most one started thread is in flight, at
\* most one monitor_queue callback is pending, and a thread is started only
\* after a terminal message of the thread before it was dispatched.
C18_OneTaskInFlight ==
    /\ Cardinality({t \in Tasks : InFlight(t)}) <= 1
    /\ after_pending <= 1
    /\ \A t \in Tasks :
          (t > 1 /\ pc[t] # "idle") => \E k \in 1..Len(events) : events[k].src = t - 1

\* C20: process_phase holds the phase name from process_start, before the
\* thread is started, until a terminal message of the thread is dispatched,
\* holds it when the handler is called with that message, and is the idle
\* value None after process_stop or process_error, when no thread is in flight.
C20_PhaseWhileInFlight ==
    /\ process_phase = IF \E t \in Tasks : InFlight(t) THEN "refresh_list" ELSE "None"
    /\ \A k \in 1..Len(received) : received[k].phase = "refresh_list"

\* C19: the UI thread never waits inside monitor_queue: whenever it is about
\* to call queue.get() the queue is not empty, it is never inside a get() that
\* waits, and a message leaves the queue only by that get(), which takes the
\* head; worker threads only append.
C19_GetNeverWaits ==
    /\ [](monitor.at # "blocked")
    /\ [](monitor.at = "get" => queue # <<>>)
    /\ [][ \/ queue' = queue
           \/ \E m \in {emitted'[Len(emitted')]} :
                 queue' = Append(queue, m) /\ monitor' = monitor
           \/ monitor.at = "get" /\ queue # <<>> /\ queue' = Tail(queue)
        ]_vars

\* The UI thread is about to call get() with two messages waiting, after it
\* has already taken one.
C19_Witness ==
    /\ monitor.at = "get"
    /\ Len(queue) >= 2
    /\ dequeued # <<>>

\* Thread t has put the timeout error of line 118.
ReportedTimedOut(t) ==
    \E i \in TerminalsOf(t) : emitted[i].topic = TimeoutTopic

\* Thread t is past the comparison of line 117.
PastCheck(t) == kind[t] = "acli" /\ pc[t] \in {"terminate", "release", "done", "raised"}

\* C21 as claimed: the limit is 120 s for list_boards, 600 s for
\* install_package, 300 s for the other methods, and compile_sketch and
\* upload_sketch have none: a compile or upload is never reported as timed out.
C21_NoLimitForCompile ==
    \A t \in Tasks :
        kind[t] = "acli" =>
            CASE task_name[t] = "list_boards" -> time_limit[t] = 120
              [] task_name[t] = "install_package" -> time_limit[t] = 600
              [] task_name[t] \in {"compile_sketch", "upload_sketch"} -> ~ReportedTimedOut(t)
              [] OTHER -> time_limit[t] = 300

\* C21 as amended: the limit is 120 s for list_boards, 600 s for
\* install_package and the default 300 s for every other method, compile_sketch
\* and upload_sketch included; a thread is reported as timed out exactly when
\* more than its limit had passed at the comparison.
C21_DefaultLimitForCompile ==
    \A t \in Tasks :
        kind[t] = "acli" =>
            /\ CASE task_name[t] = "list_boards" -> time_limit[t] = 120
                 [] task_name[t] = "install_package" -> time_limit[t] = 600
                 [] OTHER -> time_limit[t] = 300
            /\ PastCheck(t) => (ReportedTimedOut(t) <=> elapsed[t] > time_limit[t])
            /\ ~PastCheck(t) => ~ReportedTimedOut(t)

C21_Witness ==
    \E t \in Tasks :
        /\ kind[t] = "acli" /\ task_name[t] = "compile_sketch" /\ pc[t] = "done"
        /\ elapsed[t] = 301
        /\ ReportedTimedOut(t)

LaunchFailed(t) ==
    /\ kind[t] = "acli"
    /\ caught[t] # NoException
    /\ pc[t] \notin {"call", "except"}

\* Position in emitted of the first terminal message of thread t.
FirstTerminalOf(t) ==
    CHOOSE i \in TerminalsOf(t) : \A j \in TerminalsOf(t) : i <= j

DecodedOutput(t) ==
    /\ Classifying(t) /\ ~TimedOut(t)
    /\ error[t] = "" /\ output[t] # ""

\* C24: with stdout content and no stderr, a decoded output whose success is
\* false gives topic = its error field and data = its compiler_err field; a
\* decoded output without a success field gives topic "Success" and data = its
\* stdout field if it has one, the whole decoded output otherwise.
C24_FailureAndPlainOutput ==
    \A t \in Tasks :
        DecodedOutput(t) =>
            LET details == json_loads(output[t]).doc IN
            /\ Count(t) = 1
            /\ \A i \in TerminalsOf(t) :
                  /\ ("success" \in DOMAIN details /\ details.success = FALSE) =>
                        /\ emitted[i].topic = Text(Str(details.error))
                        /\ emitted[i].data = Text(Str(details.compiler_err))
                  /\ "success" \notin DOMAIN details =>
                        /\ emitted[i].topic = Text(<<"Success">>)
                        /\ emitted[i].data = IF "stdout" \in DOMAIN details
                                             THEN Text(Str(details.stdout))
                                             ELSE Json(output[t])

C24_Witness ==
    \E t \in Tasks :
        /\ DecodedOutput(t) /\ pc[t] = "done"
        /\ output[t] = "{detected_ports: x}"
        /\ \E i \in TerminalsOf(t) :
              /\ emitted[i].topic = Text(<<"Success">>)
              /\ emitted[i].data = Json("{detected_ports: x}")

\* run() of thread t has decoded the stderr of its process.
DecodedError(t) ==
    /\ Classifying(t) /\ ~TimedOut(t)
    /\ error[t] # ""

\* C25: with stderr content the message is built from stderr whatever stdout
\* holds: the topic is the error field of the decoded stderr, or "Error in
\* compile or upload" without one; with neither an error field nor a non-empty
\* output.stdout / output.stderr the data is the decoded stderr itself; the
\* data is never the empty text.
C25_StderrFirstWithFallback ==
    \A t \in Tasks :
        DecodedError(t) =>
            LET err == json_loads(error[t]).doc
                hasText(f) == /\ "output" \in DOMAIN err
                              /\ f \in DOMAIN err.output
                              /\ err.output[f] # ""
            IN
            /\ Count(t) = 1
            /\ \A i \in TerminalsOf(t) :
                  /\ emitted[i].topic = IF "error" \in DOMAIN err
                                        THEN Text(Str(err.error))
                                        ELSE Text(<<"Error in compile or upload">>)
                  /\ ("error" \notin DOMAIN err /\ ~hasText("stdout") /\ ~hasText("stderr"))
                        => emitted[i].data = Json(error[t])
                  /\ emitted[i].data # Text(<<>>)

C25_Witness ==
    \E t \in Tasks :
        /\ DecodedError(t) /\ pc[t] = "done"
        /\ output[t] = "{success: true, compiler_out: OK}"
        /\ error[t] = "{output: {stdout: , stderr: }}"
        /\ \E i \in TerminalsOf(t) :
              /\ emitted[i].topic = Text(<<"Error in compile or upload">>)
              /\ emitted[i].data = Json("{output: {stdout: , stderr: }}")

\* A step in which the view starts the ThreadedGitClient for pull_latest.
PullStarted ==
    \E t \in Tasks : pc[t] = "idle" /\ pc'[t] = "info" /\ task_name'[t] = "pull"

\* A step in which the terminal message of the clone_repo task is dispatched
\* with this status while the view's phase is clone_repo.
CloneDispatched(status) ==
    /\ process_phase = "clone_repo"
    /\ Len(events') = Len(events) + 1
    /\ events'[Len(events) + 1].status = status
    /\ events'[Len(events) + 1].topic = Text(<<"clone_repo">>)

\* A step in which setup_local_repo("setup_local_repo") finds a repository
\* without local changes and checks out its branch.
CleanRepoFound ==
    /\ list_device_button = "normal"
    /\ process_phase = "None"
    /\ events' = events
    /\ UiDone(setup_local_repo(Ui, "clean_repo", "ok"))

\* C26: the pull_latest task is started only in the step that dispatches the
\* clone_repo task's 'success' message or in the step that finds an existing
\* repository without local changes; the step that dispatches the clone's
\* 'error' message starts no task, runs process_error and clears the phase.
C26_PullOnlyAfterClone ==
    [][/\ PullStarted => CloneDispatched("success") \/ CleanRepoFound
       /\ CloneDispatched("error") =>
             /\ \A t \in Tasks : pc'[t] = pc[t]
             /\ process_phase' = "None"
             /\ ~process_running'
             /\ list_device_button' = "normal"]_vars

\* A clone failed and no pull followed it; a later clone succeeded and its
\* pull is running.
C26_Witness ==
    /\ \E i \in 1..Len(received) :
          /\ received[i].phase = "clone_repo"
          /\ received[i].msg.status = "error"
          /\ task_name[received[i].task + 1] # "pull"
    /\ \E i \in 1..Len(received) :
          /\ received[i].phase = "clone_repo"
          /\ received[i].msg.status = "success"
          /\ pc[received[i].task + 1] # "idle"
          /\ task_name[received[i].task + 1] = "pull"

\* A step in which the user acts on the view: the Scan / Refresh button of
\* SelectDevice; entering SelectVersionConfig or choosing Override there.
UserAction ==
    \/ \E t \in Scans : ListDevices(t)
    \/ SetupLocalRepo

\* A step in which a terminal message with this status is dispatched.
Dispatched(status) ==
    /\ Len(events') = Len(events) + 1
    /\ events'[Len(events) + 1].status = status

\* C27: a worker thread is started only by a user action or by the handler
\* of the clone_repo task's 'success' message; the step that dispatches an
\* 'error' message leaves the view with no phase and no process running, as
\* process_error does, and unless it is itself a user action starts no thread.
C27_NoAutomaticRetry ==
    [][/\ StartStep => UserAction \/ CloneDispatched("success")
       /\ Dispatched("error") =>
             /\ process_phase' = "None"
             /\ ~process_running'
             /\ StartStep => UserAction]_vars

\* The pull_latest task's 'error' message was dispatched, no thread was
\* started by its handler, and the user has since started the next one.
C27_Witness ==
    \E i \in 1..Len(received) :
       /\ received[i].phase = "pull_latest"
       /\ received[i].msg.status = "error"
       /\ received[i].task < NumScans
       /\ pc[received[i].task + 1] # "idle"
       /\ task_name[received[i].task + 1] = "clone_repo"

\* C28: in every state process_running is TRUE exactly when process_phase is
\* not None, and the two change only in a step that runs process_start (a
\* thread is started) or a handler called for a dispatched message
\* (process_stop, process_error).
C28_RunningIffPhase ==
    /\ [](process_running <=> process_phase # "None")
    /\ [][process_phase' # process_phase \/ process_running' # process_running
            => StartStep \/ Len(events') > Len(events)]_vars

\* A process is running with its phase set after an earlier one was ended by
\* process_error and another by process_stop.
C28_Witness ==
    /\ process_running
    /\ process_phase # "None"
    /\ \E i, j \in 1..Len(received) :
          /\ received[i].phase # "None" /\ received[i].msg.status = "error"
          /\ received[j].phase = "pull_latest" /\ received[j].msg.status = "success"

\* C29: whenever a thread of the view is in flight (started, its terminal
\* message not yet dispatched), a monitor_queue callback is scheduled.
C29_CallbackWhileInFlight ==
    (\E t \in Tasks : InFlight(t)) => after_pending >= 1

\* C30: a thread that reports a timeout had its own external call running
\* for longer than its time limit.
C30_OwnCallOverLimit ==
    \A t \in Tasks : ReportedTimedOut(t) => ran[t] > time_limit[t]

\* The positions of run() inside the with block of its lock.
InsideWith(t) == pc[t] \in {"call", "except", "check", "terminate", "put_success",
                            "put_error", "release"}

C32_SuccessOnlyWhenPulled ==
    /\ \A i \in 1..Len(emitted) :
          emitted[i].status = "success" /\ emitted[i].topic = Text(<<"pull">>)
             => emitted[i].data = Py("True")
    /\ \A i \in 1..Len(received) :
          received[i].phase = "pull_latest" /\ received[i].msg.status = "success"
             => received[i].msg.data = Py("True")

\* C33: the view is running with its inputs disabled only while a thread it
\* started is in flight, so once every started thread's terminal message has
\* been dispatched the view is back in the not-running state.
C33_RunningOnlyWhileInFlight ==
    process_running => \E t \in Tasks : InFlight(t)

\* C34: widget_states holds for the widget at most the one entry recorded by
\* the disable_input_states call of the latest running period, so that
\* restore_input_states applies that entry and no entry of an earlier period.
C34_OnlyThisPeriodRecorded ==
    Len(widget_states) <= 1

\* The latest scan has completed: its 'success' message was handled in the
\* refresh_list phase, process_stop has run and no scan was started since.
ScanCompleted ==
    /\ ~process_running
    /\ process_phase = "None"
    /\ received # <<>>
    /\ Last(received).msg.status = "success"
    /\ Last(received).phase = "refresh_list"
    /\ Last(received).msg.src = LastStarted

\* acli.selected_device is the index of a detected device whose first
\* matching board is neither 'Unknown' nor 'Select the correct device'.
SelectedIsUsable ==
    /\ devices.selected # <<>>
    /\ devices.selected[1] \in 0..(Len(devices.detected) - 1)
    /\ devices.detected[devices.selected[1] + 1][1]
          \notin {"Unknown", "Select the correct device"}

\* C35: once a scan has completed, and after any later selection, the Next
\* button is enabled exactly when the selected device is usable.
C35_NextIffUsableDevice ==
    ScanCompleted => (devices.button = "normal" <=> SelectedIsUsable)

====
